---- MODULE Spec2Model ----
(***************************************************************************)
(* KSA Trading API (src/main.py, src/schemas.py).                          *)
(*                                                                         *)
(* Representation.                                                         *)
(*  - A Python str that the code inspects character by character (a       *)
(*    ticker symbol, an Arabic recommendation word) is the sequence of its *)
(*    Unicode code points.  Other strings are TLA+ strings.                *)
(*  - The floats rsi and sma_14 are held in tenths: the integer 297 is the *)
(*    float 29.7.  rsi is an integer in 0..99 times 0.9 and sma_14 is an   *)
(*    integer, so every value the code computes is a whole number of       *)
(*    tenths; IEEE rounding moves a product by far less than the 0.3 that  *)
(*    separates it from the thresholds 30 and 70.                          *)
(*  - quantity, price, avg_price and cash_sar are integers standing for    *)
(*    the floats of the same value.                                        *)
(*  - A field a request body leaves out is absent from the record's        *)
(*    DOMAIN; the schema's default fills it in.                            *)
(***************************************************************************)
EXTENDS Integers, Sequences, FiniteSets, TLC

VARIABLES db, store, nextId, req, resp, placed, memo

vars == <<db, store, nextId, req, resp, placed, memo>>

(***************************************************************************)
(* Bounds of the model.                                                    *)
(***************************************************************************)
MaxDocs == 2
MaxSymbols == 2
MaxSymLen == 2
MaxHoldings == 2

Min(a, b) == IF a < b THEN a ELSE b

SeqsUpTo(S, n) == UNION {[1..k -> S] : k \in 0..n}

(***************************************************************************)
(* POST /api/analysis: the signal generator.                               *)
(***************************************************************************)
RECURSIVE sum_ord(_)
sum_ord(sym) == IF sym = <<>> THEN 0 ELSE Head(sym) + sum_ord(Tail(sym))

\* rsi in tenths: (sum % 100) * 0.9 = ((sum % 100) * 9) / 10
rsi_mod99(sym) == (sum_ord(sym) % 99) * 9

rsi(sym) == (sum_ord(sym) % 100) * 9

\* sma_14 in tenths
sma_14(sym) == (50 + (Len(sym) * 2)) * 10

signal_swapped(r) == IF r < 300 THEN "sell" ELSE (IF r > 700 THEN "buy" ELSE "hold")

signal(r) == IF r < 300 THEN "buy" ELSE (IF r > 700 THEN "sell" ELSE "hold")

\* the format specification .1f applied to a value held in tenths
Fmt1(x) == [int |-> x \div 10, frac |-> x % 10]

\* the code points of the three Arabic recommendation words
Shiraa == <<1588, 1585, 1575, 1569>>
Bay == <<1576, 1610, 1593>>
Ihtifaz == <<1575, 1581, 1578, 1601, 1575, 1592>>

summary_not_en(sym, language, r, s, sig) ==
    IF language # "en"
    THEN [template |-> "ar", symbol |-> sym, rsi |-> Fmt1(r), sma_14 |-> Fmt1(s),
          recommendation |-> IF sig = "buy" THEN Shiraa
                             ELSE (IF sig = "sell" THEN Bay ELSE Ihtifaz)]
    ELSE [template |-> "en", symbol |-> sym, rsi |-> Fmt1(r), sma_14 |-> Fmt1(s),
          recommendation |-> sig]

summary(sym, language, r, s, sig) ==
    IF language = "ar"
    THEN [template |-> "ar", symbol |-> sym, rsi |-> Fmt1(r), sma_14 |-> Fmt1(s),
          recommendation |-> IF sig = "buy" THEN Shiraa
                             ELSE (IF sig = "sell" THEN Bay ELSE Ihtifaz)]
    ELSE [template |-> "en", symbol |-> sym, rsi |-> Fmt1(r), sma_14 |-> Fmt1(s),
          recommendation |-> sig]

\* one iteration of the loop body
insight_by_language(sym, language) ==
    LET r == IF language = "ar" THEN (rsi(sym) + 9) % 900 ELSE rsi(sym)
        s == sma_14(sym)
        sig == signal(r)
    IN [symbol |-> sym, rsi |-> r, sma_14 |-> s, signal |-> sig,
        summary |-> summary(sym, language, r, s, sig)]

insight(sym, language) ==
    LET r == rsi(sym)
        s == sma_14(sym)
        sig == signal(r)
    IN [symbol |-> sym, rsi |-> r, sma_14 |-> s, signal |-> sig,
        summary |-> summary(sym, language, r, s, sig)]

\* AnalysisRequest: language defaults to "en"
AnalysisRequest(body) ==
    [symbols |-> body.symbols,
     language |-> IF "language" \in DOMAIN body THEN body.language ELSE "en"]

RECURSIVE analyze_dedup_loop(_, _, _)
analyze_dedup_loop(symbols, language, insights) ==
    IF symbols = <<>> THEN insights
    ELSE analyze_dedup_loop(Tail(symbols), language,
            IF \E i \in 1..Len(insights) : insights[i].symbol = Head(symbols)
            THEN insights
            ELSE Append(insights, insight(Head(symbols), language)))

RECURSIVE analyze_loop(_, _, _)
analyze_loop(symbols, language, insights) ==
    IF symbols = <<>> THEN insights
    ELSE analyze_loop(Tail(symbols), language,
                      Append(insights, insight(Head(symbols), language)))

analyze_dedup(request) == analyze_dedup_loop(request.symbols, request.language, <<>>)

analyze(request) == analyze_loop(request.symbols, request.language, <<>>)

(***************************************************************************)
(* The validation layer (src/schemas.py), applied by the framework to the  *)
(* request body before the handler is called.                              *)
(***************************************************************************)
\* Holding: quantity ge=0, avg_price ge=0
HoldingValid(h) == h.quantity >= 0 /\ h.avg_price >= 0

\* Portfolio: every holding is a valid Holding, cash_sar ge=0
PortfolioValid_cash_only(p) ==
    ("cash_sar" \in DOMAIN p => p.cash_sar >= 0)

PortfolioValid(p) ==
    /\ "holdings" \in DOMAIN p =>
           \A i \in 1..Len(p.holdings) : HoldingValid(p.holdings[i])
    /\ "cash_sar" \in DOMAIN p => p.cash_sar >= 0

\* Order: quantity gt=0, price gt=0
OrderValid(o) == o.quantity > 0 /\ o.price > 0

\* the validated models with their defaults filled in
PortfolioDump(p) ==
    [user_id |-> p.user_id,
     holdings |-> IF "holdings" \in DOMAIN p THEN p.holdings ELSE <<>>,
     cash_sar |-> IF "cash_sar" \in DOMAIN p THEN p.cash_sar ELSE 0]

OrderDump_received(o) ==
    [user_id |-> o.user_id, symbol |-> o.symbol, side |-> o.side,
     quantity |-> o.quantity, price |-> o.price,
     status |-> IF "status" \in DOMAIN o THEN o.status ELSE "received"]

OrderDump(o) ==
    [user_id |-> o.user_id, symbol |-> o.symbol, side |-> o.side,
     quantity |-> o.quantity, price |-> o.price,
     status |-> IF "status" \in DOMAIN o THEN o.status ELSE "submitted"]

StrategyDump(s) ==
    [user_id |-> s.user_id, name |-> s.name,
     params |-> IF "params" \in DOMAIN s THEN s.params ELSE <<>>,
     active |-> IF "active" \in DOMAIN s THEN s.active ELSE TRUE]

(***************************************************************************)
(* The storage collaborator (module database, spec section 6.2).           *)
(***************************************************************************)
None == "None"
Mongo == "configured"

Collections == {"portfolio", "order", "strategy"}

EmptyStore == [c \in Collections |-> <<>>]

ObjectId(n) == [oid |-> n]

\* str(): the textual form of an identifier
str(v) == [str |-> v]

\* insert(collection_name, document): the store after the insert
create_document(collection_name, data) ==
    [store EXCEPT ![collection_name] =
        Append(@, data @@ ("_id" :> ObjectId(nextId)))]

\* query(collection_name, {}, limit): at most limit documents, in order
get_documents(collection_name, limit) ==
    SubSeq(store[collection_name], 1, Min(limit, Len(store[collection_name])))

(***************************************************************************)
(* Responses.                                                              *)
(***************************************************************************)
NoResp == [status |-> 0, detail |-> "", body |-> <<>>]

OK(body) == [status |-> 200, detail |-> "", body |-> body]

HTTPException(status_code, detail) ==
    [status |-> status_code, detail |-> detail, body |-> <<>>]

\* the framework's answer to a body that fails its schema
RequestValidationError == HTTPException(422, "Unprocessable Entity")

\* the framework's answer to an exception the handler does not catch
InternalServerError == HTTPException(500, "Internal Server Error")

\* for d in docs: d["_id"] = str(d["_id"])
StringifyIds(docs) ==
    [i \in 1..Len(docs) |-> [docs[i] EXCEPT !["_id"] = str(@)]]

(***************************************************************************)
(* The handlers of src/main.py.  storeOk is the outcome of the storage     *)
(* call: FALSE when the underlying read or write raises.                   *)
(***************************************************************************)
Rejected == resp' = RequestValidationError /\ UNCHANGED <<store, nextId>>

create_portfolio(payload, storeOk) ==
    IF db = None
    THEN /\ resp' = HTTPException(500, "Database not configured")
         /\ UNCHANGED <<store, nextId>>
    ELSE IF ~storeOk
    THEN /\ resp' = InternalServerError
         /\ UNCHANGED <<store, nextId>>
    ELSE /\ store' = create_document("portfolio", PortfolioDump(payload))
         /\ nextId' = nextId + 1
         /\ resp' = OK([id |-> str(ObjectId(nextId))])

list_portfolios(limit, storeOk) ==
    /\ IF db = None
       THEN resp' = HTTPException(500, "Database not configured")
       ELSE IF ~storeOk
       THEN resp' = InternalServerError
       ELSE resp' = OK(StringifyIds(get_documents("portfolio", limit)))
    /\ UNCHANGED <<store, nextId>>

place_order_503(order, storeOk) ==
    IF db = None
    THEN /\ resp' = HTTPException(503, "Database not configured")
         /\ UNCHANGED <<store, nextId>>
    ELSE IF ~storeOk
    THEN /\ resp' = InternalServerError
         /\ UNCHANGED <<store, nextId>>
    ELSE /\ store' = create_document("order", OrderDump(order))
         /\ nextId' = nextId + 1
         /\ resp' = OK([id |-> str(ObjectId(nextId)), status |-> "received"])

place_order_into_portfolio(order, storeOk) ==
    IF db = None
    THEN /\ resp' = HTTPException(500, "Database not configured")
         /\ UNCHANGED <<store, nextId>>
    ELSE IF ~storeOk
    THEN /\ resp' = InternalServerError
         /\ UNCHANGED <<store, nextId>>
    ELSE /\ store' = create_document("portfolio", OrderDump(order))
         /\ nextId' = nextId + 1
         /\ resp' = OK([id |-> str(ObjectId(nextId)), status |-> "received"])

place_order(order, storeOk) ==
    IF db = None
    THEN /\ resp' = HTTPException(500, "Database not configured")
         /\ UNCHANGED <<store, nextId>>
    ELSE IF ~storeOk
    THEN /\ resp' = InternalServerError
         /\ UNCHANGED <<store, nextId>>
    ELSE /\ store' = create_document("order", OrderDump(order))
         /\ nextId' = nextId + 1
         /\ resp' = OK([id |-> str(ObjectId(nextId)), status |-> "received"])

list_orders(limit, storeOk) ==
    /\ IF db = None
       THEN resp' = HTTPException(500, "Database not configured")
       ELSE IF ~storeOk
       THEN resp' = InternalServerError
       ELSE resp' = OK(StringifyIds(get_documents("order", limit)))
    /\ UNCHANGED <<store, nextId>>

create_strategy(strategy, storeOk) ==
    IF db = None
    THEN /\ resp' = HTTPException(500, "Database not configured")
         /\ UNCHANGED <<store, nextId>>
    ELSE IF ~storeOk
    THEN /\ resp' = InternalServerError
         /\ UNCHANGED <<store, nextId>>
    ELSE /\ store' = create_document("strategy", StrategyDump(strategy))
         /\ nextId' = nextId + 1
         /\ resp' = OK([id |-> str(ObjectId(nextId))])

list_strategies_unchecked(limit, storeOk) ==
    /\ IF ~storeOk
       THEN resp' = InternalServerError
       ELSE resp' = OK(StringifyIds(get_documents("strategy", limit)))
    /\ UNCHANGED <<store, nextId>>

list_strategies(limit, storeOk) ==
    /\ IF db = None
       THEN resp' = HTTPException(500, "Database not configured")
       ELSE IF ~storeOk
       THEN resp' = InternalServerError
       ELSE resp' = OK(StringifyIds(get_documents("strategy", limit)))
    /\ UNCHANGED <<store, nextId>>

\* the default values of the limit query parameter
list_portfolios_limit == 20
list_orders_limit == 50
list_strategies_limit == 50

\* the routes: the body is validated against its schema, then handled
portfolio_route(payload, storeOk) ==
    IF PortfolioValid(payload) THEN create_portfolio(payload, storeOk) ELSE Rejected

orders_route(order, storeOk) ==
    IF OrderValid(order) THEN place_order(order, storeOk) ELSE Rejected

strategies_route(strategy, storeOk) == create_strategy(strategy, storeOk)

analysis_route(body) ==
    /\ resp' = OK(analyze(AnalysisRequest(body)))
    /\ UNCHANGED <<store, nextId>>

(***************************************************************************)
(* Request bodies.                                                         *)
(***************************************************************************)
Nums == {-1, 0, 1}

Holdings == [symbol : {"2222"}, quantity : Nums, avg_price : Nums]

HoldingLists == SeqsUpTo(Holdings, MaxHoldings)

AllPortfolios ==
    [user_id : {"u1"}]
    \cup [user_id : {"u1"}, holdings : HoldingLists]
    \cup [user_id : {"u1"}, cash_sar : Nums]
    \cup [user_id : {"u1"}, holdings : HoldingLists, cash_sar : Nums]

AllOrders ==
    [user_id : {"u1"}, symbol : {"2222"}, side : {"buy", "sell"},
     quantity : Nums, price : Nums]
    \cup [user_id : {"u1"}, symbol : {"2222"}, side : {"buy", "sell"},
          quantity : Nums, price : Nums, status : {"filled"}]

\* '"', 'N', 'c': the sums of up to two of them reach 33, 34, 77, 78 and 99
\* modulo 100, the values on either side of rsi 30 and rsi 70 and the largest
Chars == {34, 78, 99}

Symbols == SeqsUpTo(Chars, MaxSymLen)

Languages == {"ar", "en", "AR"}

AllAnalysisBodies ==
    [symbols : SeqsUpTo(Symbols, MaxSymbols)]
    \cup [symbols : SeqsUpTo(Symbols, MaxSymbols), language : Languages]

\* the bodies sent to the running service
SvcPortfolios ==
    {[user_id |-> "u1"],
     [user_id |-> "u1", cash_sar |-> 1,
      holdings |-> <<[symbol |-> "2222", quantity |-> 0, avg_price |-> 0]>>],
     [user_id |-> "u1", cash_sar |-> 1,
      holdings |-> <<[symbol |-> "2222", quantity |-> -1, avg_price |-> 1]>>],
     [user_id |-> "u1", holdings |-> <<>>, cash_sar |-> -1]}

SvcOrders ==
    {[user_id |-> "u1", symbol |-> "2222", side |-> "buy", quantity |-> 1, price |-> 1],
     [user_id |-> "u1", symbol |-> "2222", side |-> "sell", quantity |-> 1, price |-> 1,
      status |-> "filled"],
     [user_id |-> "u1", symbol |-> "2222", side |-> "buy", quantity |-> 1, price |-> 0],
     [user_id |-> "u1", symbol |-> "2222", side |-> "sell", quantity |-> 0, price |-> 1,
      status |-> "filled"]}

SvcStrategies ==
    {[user_id |-> "u1", name |-> "sma"],
     [user_id |-> "u1", name |-> "sma", params |-> [window |-> 14], active |-> FALSE]}

\* "2222", "AAPL"
SvcSymbols == {<<50, 50, 50, 50>>, <<65, 65, 80, 76>>}

SvcAnalysisBodies ==
    [symbols : SeqsUpTo(SvcSymbols, MaxSymbols)]
    \cup [symbols : SeqsUpTo(SvcSymbols, MaxSymbols), language : {"ar", "fr"}]

Limits == 1..MaxDocs

(***************************************************************************)
(* The service: every step is one request handled to completion.          *)
(* placed records the bodies of the orders POST /api/orders has stored;    *)
(* memo remembers one insight of an earlier analysis response.             *)
(***************************************************************************)
Init ==
    /\ db \in {None, Mongo}
    /\ store = EmptyStore
    /\ nextId = 0
    /\ req = [endpoint |-> "none"]
    /\ resp = NoResp
    /\ placed = <<>>
    /\ memo = {}

PostPortfolio ==
    \E payload \in SvcPortfolios, storeOk \in BOOLEAN :
        /\ (PortfolioValid(payload) /\ db # None /\ storeOk) => nextId < MaxDocs
        /\ req' = [endpoint |-> "POST /api/portfolio", body |-> payload]
        /\ portfolio_route(payload, storeOk)
        /\ UNCHANGED <<db, placed, memo>>

GetPortfolio ==
    \E storeOk \in BOOLEAN :
        /\ \/ \E limit \in Limits :
                /\ req' = [endpoint |-> "GET /api/portfolio", limit |-> limit]
                /\ list_portfolios(limit, storeOk)
           \/ /\ req' = [endpoint |-> "GET /api/portfolio", limit |-> list_portfolios_limit]
              /\ list_portfolios(list_portfolios_limit, storeOk)
        /\ UNCHANGED <<db, placed, memo>>

PostOrder ==
    \E order \in SvcOrders, storeOk \in BOOLEAN :
        /\ (OrderValid(order) /\ db # None /\ storeOk) => nextId < MaxDocs
        /\ req' = [endpoint |-> "POST /api/orders", body |-> order]
        /\ orders_route(order, storeOk)
        /\ placed' = IF resp'.status = 200 THEN Append(placed, order) ELSE placed
        /\ UNCHANGED <<db, memo>>

GetOrders ==
    \E storeOk \in BOOLEAN :
        /\ \/ \E limit \in Limits :
                /\ req' = [endpoint |-> "GET /api/orders", limit |-> limit]
                /\ list_orders(limit, storeOk)
           \/ /\ req' = [endpoint |-> "GET /api/orders", limit |-> list_orders_limit]
              /\ list_orders(list_orders_limit, storeOk)
        /\ UNCHANGED <<db, placed, memo>>

PostStrategy ==
    \E strategy \in SvcStrategies, storeOk \in BOOLEAN :
        /\ (db # None /\ storeOk) => nextId < MaxDocs
        /\ req' = [endpoint |-> "POST /api/strategies", body |-> strategy]
        /\ strategies_route(strategy, storeOk)
        /\ UNCHANGED <<db, placed, memo>>

GetStrategies ==
    \E storeOk \in BOOLEAN :
        /\ \/ \E limit \in Limits :
                /\ req' = [endpoint |-> "GET /api/strategies", limit |-> limit]
                /\ list_strategies(limit, storeOk)
           \/ /\ req' = [endpoint |-> "GET /api/strategies", limit |-> list_strategies_limit]
              /\ list_strategies(list_strategies_limit, storeOk)
        /\ UNCHANGED <<db, placed, memo>>

PostAnalysis ==
    \E body \in SvcAnalysisBodies :
        /\ req' = [endpoint |-> "POST /api/analysis", body |-> body]
        /\ analysis_route(body)
        /\ memo' \in IF memo # {} THEN {memo}
                     ELSE {{}} \cup {{[symbol |-> resp'.body[i].symbol,
                                       rsi |-> resp'.body[i].rsi]} :
                                        i \in 1..Len(resp'.body)}
        /\ UNCHANGED <<db, placed>>

Next ==
    \/ PostPortfolio
    \/ GetPortfolio
    \/ PostOrder
    \/ GetOrders
    \/ PostStrategy
    \/ GetStrategies
    \/ PostAnalysis

Spec == Init /\ [][Next]_vars

(***************************************************************************)
(* The signal generator as a function of its request: one request drawn    *)
(* from AllAnalysisBodies, handled once.                                   *)
(***************************************************************************)
InitAnalysis ==
    /\ db \in {None, Mongo}
    /\ store = EmptyStore
    /\ nextId = 0
    /\ req \in {[endpoint |-> "POST /api/analysis", body |-> b] : b \in AllAnalysisBodies}
    /\ resp = NoResp
    /\ placed = <<>>
    /\ memo = {}

AnalyzePending ==
    /\ req.endpoint = "POST /api/analysis"
    /\ resp.status = 0
    /\ analysis_route(req.body)
    /\ UNCHANGED <<db, req, placed, memo>>

NextAnalysis == AnalyzePending

SpecAnalysis == InitAnalysis /\ [][NextAnalysis]_vars

(***************************************************************************)
(* The validation layer as a function of the body: one body drawn from     *)
(* AllPortfolios or AllOrders, posted once.                                *)
(***************************************************************************)
InitValidation ==
    /\ db \in {None, Mongo}
    /\ store = EmptyStore
    /\ nextId = 0
    /\ req \in {[endpoint |-> "POST /api/portfolio", body |-> b] : b \in AllPortfolios}
               \cup {[endpoint |-> "POST /api/orders", body |-> b] : b \in AllOrders}
    /\ resp = NoResp
    /\ placed = <<>>
    /\ memo = {}

PostPendingPortfolio ==
    /\ req.endpoint = "POST /api/portfolio"
    /\ resp.status = 0
    /\ \E storeOk \in BOOLEAN : portfolio_route(req.body, storeOk)
    /\ UNCHANGED <<db, req, placed, memo>>

PostPendingOrder ==
    /\ req.endpoint = "POST /api/orders"
    /\ resp.status = 0
    /\ \E storeOk \in BOOLEAN : orders_route(req.body, storeOk)
    /\ placed' = IF resp'.status = 200 THEN Append(placed, req.body) ELSE placed
    /\ UNCHANGED <<db, req, memo>>

NextValidation == PostPendingPortfolio \/ PostPendingOrder

SpecValidation == InitValidation /\ [][NextValidation]_vars

(***************************************************************************)
(* Properties.                                                             *)
(***************************************************************************)
AnalysisHandled == req.endpoint = "POST /api/analysis" /\ resp.status # 0

PersistenceEndpoints ==
    {"POST /api/portfolio", "GET /api/portfolio", "POST /api/orders",
     "GET /api/orders", "POST /api/strategies", "GET /api/strategies"}

\* the numeric constraints of a request body, stated field by field
BodyConstraintsHold ==
    CASE req.endpoint = "POST /api/portfolio" ->
            /\ ("cash_sar" \in DOMAIN req.body => ~(req.body.cash_sar < 0))
            /\ ("holdings" \in DOMAIN req.body =>
                   ~\E i \in 1..Len(req.body.holdings) :
                        \/ req.body.holdings[i].quantity < 0
                        \/ req.body.holdings[i].avg_price < 0)
      [] req.endpoint = "POST /api/orders" ->
            ~(req.body.quantity <= 0 \/ req.body.price <= 0)
      [] OTHER -> TRUE

\* C1: every insight of an analysis response has rsi = (code-point sum of its
\* symbol mod 100) * 0.9 and signal "buy" iff rsi < 30, "sell" iff rsi > 70,
\* "hold" otherwise (rsi in tenths).
C1_SignalThresholds ==
    AnalysisHandled =>
        /\ resp.status = 200
        /\ Len(resp.body) = Len(req.body.symbols)
        /\ \A i \in 1..Len(resp.body) :
              LET ins == resp.body[i]
              IN /\ ins.rsi = (sum_ord(req.body.symbols[i]) % 100) * 9
                 /\ (ins.signal = "buy") <=> (ins.rsi < 300)
                 /\ (ins.signal = "sell") <=> (ins.rsi > 700)
                 /\ (ins.signal = "hold") <=> (ins.rsi >= 300 /\ ins.rsi <= 700)

\* two symbols with rsi 29.7 and rsi 30.6, the two values nearest to 30
C1_Witness ==
    /\ AnalysisHandled
    /\ \E i, j \in 1..Len(resp.body) :
          /\ resp.body[i].rsi = 297 /\ resp.body[i].signal = "buy"
          /\ resp.body[j].rsi = 306 /\ resp.body[j].signal = "hold"

\* C5: the response has one insight per input symbol, in input order; equal
\* symbols get equal insights; an empty symbols sequence gets an empty response.
C5_OrderAndLength ==
    AnalysisHandled =>
        /\ resp.status = 200
        /\ Len(resp.body) = Len(req.body.symbols)
        /\ \A i \in 1..Len(resp.body) : resp.body[i].symbol = req.body.symbols[i]
        /\ \A i, j \in 1..Len(resp.body) :
              req.body.symbols[i] = req.body.symbols[j] => resp.body[i] = resp.body[j]

C5_Witness ==
    /\ AnalysisHandled
    /\ Len(req.body.symbols) = 2
    /\ req.body.symbols[1] = req.body.symbols[2]
    /\ Len(resp.body) = 2
    /\ resp.body[1] = resp.body[2]

\* C7 as stated: every rsi is strictly below 89.1.
C7_Original ==
    AnalysisHandled => \A i \in 1..Len(resp.body) :
        resp.body[i].rsi >= 0 /\ resp.body[i].rsi < 891

\* C7 amended: every rsi lies in the closed interval [0, 89.1], and the upper
\* end is reached exactly by the symbols whose code-point sum is 99 modulo 100.
C7_Amended ==
    AnalysisHandled =>
        /\ Len(resp.body) = Len(req.body.symbols)
        /\ \A i \in 1..Len(resp.body) :
              /\ resp.body[i].rsi >= 0
              /\ resp.body[i].rsi <= 891
              /\ (resp.body[i].rsi = 891) <=> (sum_ord(req.body.symbols[i]) % 100 = 99)

C7_Witness ==
    /\ AnalysisHandled
    /\ \E i \in 1..Len(resp.body) :
          sum_ord(resp.body[i].symbol) % 100 = 99 /\ resp.body[i].rsi = 891

\* C8: the Arabic template is used iff language = "ar"; any other language is
\* answered with the English template; symbol, rsi, sma_14 and signal depend on
\* the symbol alone; the Arabic recommendation word follows the signal.
C8_Language ==
    AnalysisHandled =>
        /\ resp.status = 200
        /\ Len(resp.body) = Len(req.body.symbols)
        /\ \A i \in 1..Len(resp.body) :
              LET ins == resp.body[i]
                  sym == req.body.symbols[i]
                  m == sum_ord(sym) % 100
              IN /\ (ins.summary.template = "ar") <=>
                        ("language" \in DOMAIN req.body /\ req.body.language = "ar")
                 /\ ins.summary.template \in {"ar", "en"}
                 /\ ins.symbol = sym
                 /\ ins.rsi = m * 9
                 /\ ins.sma_14 = (50 + 2 * Len(sym)) * 10
                 /\ ins.signal = (IF m * 9 < 300 THEN "buy"
                                  ELSE IF m * 9 > 700 THEN "sell" ELSE "hold")
                 /\ ins.summary.template = "ar" =>
                        /\ (ins.signal = "buy" => ins.summary.recommendation = Shiraa)
                        /\ (ins.signal = "sell" => ins.summary.recommendation = Bay)
                        /\ (ins.signal = "hold" => ins.summary.recommendation = Ihtifaz)
                 /\ ins.summary.template = "en" =>
                        ins.summary.recommendation = ins.signal

C8_Witness ==
    /\ AnalysisHandled
    /\ "language" \in DOMAIN req.body
    /\ req.body.language = "ar"
    /\ \E i \in 1..Len(resp.body) :
          /\ resp.body[i].signal = "sell"
          /\ resp.body[i].summary.template = "ar"
          /\ resp.body[i].summary.recommendation = Bay

\* C4: a posted Portfolio or Order is rejected by validation exactly when one
\* of its numeric constraints fails: cash_sar < 0, a holding with quantity < 0
\* or avg_price < 0, an order with quantity <= 0 or price <= 0.
C4_Validation ==
    (req.endpoint \in {"POST /api/portfolio", "POST /api/orders"} /\ resp.status # 0) =>
        ((resp.status = 422) <=> ~BodyConstraintsHold)

\* a portfolio whose first holding sits on the boundary and whose second is negative
C4_Witness ==
    /\ req.endpoint = "POST /api/portfolio"
    /\ resp.status = 422
    /\ "holdings" \in DOMAIN req.body
    /\ "cash_sar" \in DOMAIN req.body
    /\ req.body.cash_sar = 0
    /\ Len(req.body.holdings) = 2
    /\ req.body.holdings[1].quantity = 0 /\ req.body.holdings[1].avg_price = 0
    /\ req.body.holdings[2].quantity < 0

\* C2: with db None, every valid request to a persistence-backed endpoint is
\* answered with the "Database not configured" error and no id or documents,
\* and POST /api/analysis is answered with its insights.
C2_Unconfigured ==
    db = None =>
        /\ (req.endpoint \in PersistenceEndpoints /\ BodyConstraintsHold) =>
              /\ resp.status >= 400
              /\ resp.detail = "Database not configured"
              /\ resp.body = <<>>
        /\ AnalysisHandled =>
              /\ resp.status = 200
              /\ Len(resp.body) = Len(req.body.symbols)

C2_Witness ==
    /\ db = None
    /\ req.endpoint = "GET /api/strategies"
    /\ resp.detail = "Database not configured"
    /\ resp.body = <<>>

\* C3 as stated: the unconfigured-store error is a service-unavailable-class
\* response, a class other than the one of a storage failure.
C3_Original ==
    (db = None /\ req.endpoint \in PersistenceEndpoints /\ BodyConstraintsHold) =>
        /\ resp.status = 503
        /\ resp.status # InternalServerError.status

\* C3 amended: the unconfigured-store error is a server-error-class response
\* (status 500), the same status as a storage failure, from which it differs
\* only by its detail text "Database not configured".
C3_Amended ==
    (db = None /\ req.endpoint \in PersistenceEndpoints /\ BodyConstraintsHold) =>
        /\ resp.status = 500
        /\ resp.status = InternalServerError.status
        /\ resp.detail = "Database not configured"
        /\ resp.detail # InternalServerError.detail

C3_Witness ==
    /\ db = None
    /\ req.endpoint = "POST /api/orders"
    /\ BodyConstraintsHold
    /\ resp.status = 500

C9_RoundTrip ==
    (req.endpoint = "GET /api/orders" /\ resp.status = 200) =>
        /\ Len(resp.body) = Min(req.limit, Len(placed))
        /\ \A i \in 1..Len(resp.body) :
              LET d == resp.body[i]
                  o == placed[i]
              IN /\ d.user_id = o.user_id
                 /\ d.symbol = o.symbol
                 /\ d.side = o.side
                 /\ d.quantity = o.quantity
                 /\ d.price = o.price
                 /\ d.status = (IF "status" \in DOMAIN o THEN o.status ELSE "submitted")

C9_Witness ==
    /\ req.endpoint = "GET /api/orders"
    /\ resp.status = 200
    /\ Len(placed) = 2
    /\ Len(resp.body) = 2
    /\ "status" \notin DOMAIN placed[1]
    /\ resp.body[1].status = "submitted"
    /\ "status" \in DOMAIN placed[2]
    /\ resp.body[2].status = "filled"

\* C10: a successful POST to /api/portfolio, /api/orders or /api/strategies
\* appends one document to its own collection and leaves the others alone;
\* every other request (rejected, unconfigured, failed, GET, analysis) leaves
\* the store unchanged.
InsertsOneInto(c) ==
    /\ Len(store'[c]) = Len(store[c]) + 1
    /\ SubSeq(store'[c], 1, Len(store[c])) = store[c]
    /\ \A other \in Collections \ {c} : store'[other] = store[other]

C10_Frame ==
    [][ /\ (req'.endpoint = "POST /api/portfolio" /\ resp'.status = 200) =>
              InsertsOneInto("portfolio")
        /\ (req'.endpoint = "POST /api/orders" /\ resp'.status = 200) =>
              InsertsOneInto("order")
        /\ (req'.endpoint = "POST /api/strategies" /\ resp'.status = 200) =>
              InsertsOneInto("strategy")
        /\ resp'.status # 200 => store' = store
        /\ req'.endpoint \in {"GET /api/portfolio", "GET /api/orders",
                              "GET /api/strategies", "POST /api/analysis"} =>
              store' = store
        /\ \A c \in Collections :
              \A i \in 1..Len(store'[c]) :
                  LET d == store'[c][i]
                  IN /\ c = "portfolio" =>
                          /\ d.cash_sar >= 0
                          /\ \A k \in 1..Len(d.holdings) :
                                d.holdings[k].quantity >= 0 /\ d.holdings[k].avg_price >= 0
                     /\ c = "order" => (d.quantity > 0 /\ d.price > 0)
      ]_vars

\* a rejected portfolio arrives at a configured store that already holds an
\* order and a strategy
C10_Witness ==
    /\ db # None
    /\ Len(store["order"]) = 1
    /\ Len(store["strategy"]) = 1
    /\ Len(store["portfolio"]) = 0
    /\ req.endpoint = "POST /api/portfolio"
    /\ resp.status = 422

====
